---- MODULE Spec2Model ----
(***************************************************************************)
(* FluentLeap backend: the daily challenge endpoints of main.py            *)
(* (GET /api/today, POST /api/story) over the Firestore "challenges"       *)
(* collection of db_utils.py and the Gemini calls of llm_utils.py.         *)
(*                                                                         *)
(* The document store is shared by every server process, and a handler's   *)
(* reads and writes of it are separate remote calls: a request is modelled *)
(* as a sequence of steps, one per store access, and requests interleave   *)
(* between their steps.                                                    *)
(*                                                                         *)
(* Strings are modelled as follows: a word, a story and an image URL are   *)
(* TLA+ strings; a feedback text is the sequence of its parts (the empty   *)
(* text is <<>>); a date is a day number.                                  *)
(***************************************************************************)
EXTENDS Integers, Sequences, FiniteSets, TLC

VARIABLES wordfile, store, now, req, last, raw_word_data, formatted_data,
          daily_idioms, ireq, ilast

vars == <<wordfile, store, now, req, last, raw_word_data, formatted_data,
          daily_idioms, ireq, ilast>>

\* the state of the challenge endpoints, of the normalizer run on its own and
\* of get_or_create_daily_idioms
challenge_vars == <<wordfile, store, now, req, last>>
normalizer_vars == <<raw_word_data, formatted_data>>
idiom_vars == <<daily_idioms, ireq, ilast>>
outside_challenge == <<normalizer_vars, idiom_vars>>

(* ------------------------------ bounds -------------------------------- *)

\* number of calendar days the clock runs through
MaxDate == 2
\* number of requests that can be in flight at once
NumProcs == 2
\* how many outcomes of one random.sample call are drawn
MaxOffsets == 2
\* how many items more than requested a vocabulary reply may carry
MaxExtra == 1
\* longest list handed to _format_word_data on its own
MaxLen == 3

Dates == 1..MaxDate
Procs == 1..NumProcs

\* the stories a client submits ("" is the empty story)
Stories == {"", "s1"}

(* ----------------------------- constants ------------------------------ *)

WORDS_PER_DAY == 5

\* a line of the word file: its text after strip(), and whether its first
\* character is a letter
Line(t) == [text |-> t, alpha |-> TRUE]
Blank == [text |-> "", alpha |-> FALSE]
Comment == [text |-> "# words", alpha |-> FALSE]
Indented(t) == [text |-> t, alpha |-> FALSE]

\* contents of the word file oxford_5000.txt
NoFile == [exists |-> FALSE, lines |-> <<>>]
NoWords == [exists |-> TRUE, lines |-> <<Comment, Blank>>]
ThreeWords ==
    [exists |-> TRUE,
     lines |-> <<Line("a"), Blank, Line("b"), Comment, Line("c"), Indented("d")>>]
SixWords ==
    [exists |-> TRUE,
     lines |-> <<Line("a"), Line("b"), Line("c"), Line("d"), Line("e"), Line("f")>>]
RepeatedWord ==
    [exists |-> TRUE,
     lines |-> <<Line("a"), Line("a"), Line("b"), Line("c"), Line("d"), Line("e"),
                 Line("f")>>]

(* ------------------------------ helpers ------------------------------- *)

Range(s) == {s[i] : i \in 1..Len(s)}

Min(S) == CHOOSE x \in S : \A y \in S : x <= y

RECURSIVE Ascending(_)
Ascending(I) == IF I = {} THEN <<>> ELSE <<Min(I)>> \o Ascending(I \ {Min(I)})

\* list(set(xs)): the distinct elements of xs, here in order of first occurrence
ListOfSet(xs) ==
    LET first == {i \in 1..Len(xs) : \A j \in 1..(i - 1) : xs[j] # xs[i]}
        pos == Ascending(first)
    IN  [i \in 1..Len(pos) |-> xs[pos[i]]]

\* random.sample(population, k) for k <= len(population): k distinct
\* positions of the population.  The positions drawn are k consecutive ones,
\* wrapping around the end of the list, starting at any of the first
\* MaxOffsets positions.
Sample(population, k) ==
    LET n == Len(population)
        offsets == {o \in 0..(MaxOffsets - 1) : o < n}
    IN  {[i \in 1..k |-> population[((o + i - 1) % n) + 1]] : o \in offsets}

(* --------------------------- word entries ----------------------------- *)

\* A word entry is a positional tuple/list (tag "seq", vals its positions), a
\* keyed mapping (tag "map", keys the keys present and vals their values) or
\* another JSON value (tag "str").
Keys == <<"word", "ipa", "meaning", "synonyms", "antonyms", "sentence">>

Tuple(v) == [tag |-> "seq", keys |-> <<>>, vals |-> v]
Dict(k, v) == [tag |-> "map", keys |-> k, vals |-> v]
Scalar == [tag |-> "str", keys |-> <<>>, vals |-> <<>>]

\* item.get(key, default)
DictGet(item, key, default) ==
    IF \E i \in 1..Len(item.keys) : item.keys[i] = key
    THEN item.vals[CHOOSE i \in 1..Len(item.keys) : item.keys[i] = key]
    ELSE default

\* _format_word_data without its elif branch: keyed mappings are dropped
RECURSIVE _format_word_data_tuples_only(_)
_format_word_data_tuples_only(word_data_list) ==
    IF word_data_list = <<>> THEN <<>>
    ELSE LET item == Head(word_data_list)
             rest == _format_word_data_tuples_only(Tail(word_data_list))
         IN  IF item.tag = "seq" /\ Len(item.vals) >= 6
             THEN <<Dict(Keys, SubSeq(item.vals, 1, 6))>> \o rest
             ELSE rest

\* _format_word_data with the length test len(item) >= 5: a five-position
\* tuple is kept, its missing position filled with ""
RECURSIVE _format_word_data_min5(_)
_format_word_data_min5(word_data_list) ==
    IF word_data_list = <<>> THEN <<>>
    ELSE LET item == Head(word_data_list)
             rest == _format_word_data_min5(Tail(word_data_list))
         IN  IF item.tag = "seq" /\ Len(item.vals) >= 5
             THEN <<Dict(Keys, [k \in 1..6 |-> IF Len(item.vals) > k - 1
                                                THEN item.vals[k] ELSE ""])>> \o rest
             ELSE IF item.tag = "map" THEN <<item>> \o rest
             ELSE rest

RECURSIVE _format_word_data(_)
_format_word_data(word_data_list) ==
    IF word_data_list = <<>> THEN <<>>
    ELSE LET item == Head(word_data_list)
             rest == _format_word_data(Tail(word_data_list))
         IN  IF item.tag = "seq" /\ Len(item.vals) >= 6
             THEN <<Dict(Keys, SubSeq(item.vals, 1, 6))>> \o rest
             ELSE IF item.tag = "map" THEN <<item>> \o rest
             ELSE rest

\* the copy of _format_word_data in migrate.py
RECURSIVE migrate_format_word_data(_)
migrate_format_word_data(word_data_list) ==
    IF word_data_list = <<>> THEN <<>>
    ELSE LET item == Head(word_data_list)
             rest == migrate_format_word_data(Tail(word_data_list))
         IN  IF item.tag = "seq" /\ Len(item.vals) >= 6
             THEN <<Dict(Keys, SubSeq(item.vals, 1, 6))>> \o rest
             ELSE IF item.tag = "map" THEN <<item>> \o rest
             ELSE rest

(* ------------------------ vocabulary generator ------------------------ *)

\* what the model returns for a complete item of word w, and for an item that
\* carries the word alone
FullItem(w) == Dict(Keys, <<w, "ipa", "meaning", "syn", "ant", "sentence">>)
PartialItem(w) == Dict(<<"word">>, <<w>>)

\* The replies of the Gemini text model to a vocabulary request: the call or
\* response.text raises ("throw"), the text is not the JSON the code can walk
\* ("notjson": json.loads raises, or the value is no object, or "word_data"
\* is no list), the object has no "word_data" ("nokey"), or "word_data" is a
\* list of items: none, as many as requested, up to MaxExtra more, with one
\* that lacks keys, or with one that is not an object.
VocabReplies(words) ==
    LET wordAt(i) == IF i <= Len(words) THEN words[i] ELSE "extra"
        full(k) == [i \in 1..k |-> FullItem(wordAt(i))]
    IN  { [kind |-> k, word_data |-> <<>>] : k \in {"throw", "notjson", "nokey"} }
        \cup { [kind |-> "list", word_data |-> full(k)] :
                   k \in {0} \cup (Len(words)..(Len(words) + MaxExtra)) }
        \cup { [kind |-> "list",
                word_data |-> [i \in 1..Len(words) |->
                                  IF i = 1 THEN PartialItem(words[i]) ELSE FullItem(words[i])]],
               [kind |-> "list",
                word_data |-> [i \in 1..Len(words) |->
                                  IF i = Len(words) THEN Scalar ELSE FullItem(words[i])]] }

Placeholder(word) ==
    Tuple(<<word, "N/A", "Error loading data from AI.", "N/A", "N/A", "N/A">>)

\* get_llm_vocab_batch without its check for empty results
get_llm_vocab_batch_no_empty_check(words, reply) ==
    LET fallback == [i \in 1..Len(words) |-> Placeholder(words[i])]
        word_list == IF reply.kind = "nokey" THEN <<>> ELSE reply.word_data
        results == [i \in 1..Len(word_list) |->
                       Tuple([j \in 1..6 |-> DictGet(word_list[i], Keys[j], "")])]
    IN  IF reply.kind \in {"throw", "notjson"} THEN fallback
        ELSE IF \E i \in 1..Len(word_list) : word_list[i].tag # "map" THEN fallback
        ELSE results

get_llm_vocab_batch(words, reply) ==
    LET fallback == [i \in 1..Len(words) |-> Placeholder(words[i])]
        word_list == IF reply.kind = "nokey" THEN <<>> ELSE reply.word_data
        results == [i \in 1..Len(word_list) |->
                       Tuple([j \in 1..6 |-> DictGet(word_list[i], Keys[j], "")])]
    IN  IF reply.kind \in {"throw", "notjson"} THEN fallback
        ELSE IF \E i \in 1..Len(word_list) : word_list[i].tag # "map" THEN fallback
        ELSE IF results = <<>> THEN fallback
        ELSE results

(* ------------------------- feedback and image ------------------------- *)

\* the replies of the text model to a feedback request
FeedbackReplies ==
    { [kind |-> "throw", text |-> <<>>],
      [kind |-> "text", text |-> <<"### Corrections:", "ai corrections">>],
      [kind |-> "text", text |-> <<"ai chatter">>] }

\* get_story_feedback returning the model's text without its try/except
get_story_feedback_unchecked(story, reply) == reply.text

get_story_feedback(story, reply) ==
    IF reply.kind = "text" /\ "### Corrections:" \in Range(reply.text)
    THEN reply.text
    ELSE <<"### Corrections:", "None.", "### Suggestions:", "Great job using the words!",
           "### Best Version:", story>>

\* the replies of the image model; the result is the image bytes, "" for None
ImageReplies == {"throw", "blocked", "image"}

generate_image_with_gemini(reply) == IF reply = "image" THEN "png" ELSE ""

\* outcomes of the upload: stored and made public, or an error
UploadOutcomes == {"ok", "error"}

\* upload_image_to_storage returning the URL also when the upload failed
upload_image_to_storage_always_url(outcome) == "url"

upload_image_to_storage(outcome) == IF outcome = "ok" THEN "url" ELSE ""

(* --------------------------- document store --------------------------- *)

\* store: the "challenges" collection, a function from the dates that have a
\* document to the document
Absent == [exists |-> FALSE]

get_challenge_for_date(st, date_str) ==
    IF date_str \in DOMAIN st THEN [exists |-> TRUE, doc |-> st[date_str]] ELSE Absent

\* save_challenge that creates the document and leaves an existing one alone
save_challenge_create_only(st, date_str, words, word_data, story, feedback, story_image_url) ==
    IF date_str \in DOMAIN st THEN st
    ELSE [d \in DOMAIN st \cup {date_str} |->
            IF d = date_str
            THEN [date |-> date_str, words |-> words, word_data |-> word_data,
                  story |-> story, feedback |-> feedback,
                  story_image_url |-> story_image_url]
            ELSE st[d]]

\* save_challenge that keeps the feedback of a record that has one
save_challenge_keep_feedback(st, date_str, words, word_data, story, feedback, story_image_url) ==
    LET kept == IF date_str \in DOMAIN st /\ st[date_str].feedback # <<>>
                THEN st[date_str].feedback ELSE feedback
    IN  [d \in DOMAIN st \cup {date_str} |->
            IF d = date_str
            THEN [date |-> date_str, words |-> words, word_data |-> word_data,
                  story |-> story, feedback |-> kept,
                  story_image_url |-> story_image_url]
            ELSE st[d]]

\* save_challenge that keeps a stored image URL when the new one is empty
save_challenge_keep_url(st, date_str, words, word_data, story, feedback, story_image_url) ==
    LET kept == IF date_str \in DOMAIN st /\ story_image_url = ""
                THEN st[date_str].story_image_url ELSE story_image_url
        challenge_data == [date |-> date_str, words |-> words, word_data |-> word_data,
                           story |-> story, feedback |-> feedback,
                           story_image_url |-> kept]
    IN  [d \in DOMAIN st \cup {date_str} |->
            IF d = date_str THEN challenge_data ELSE st[d]]

save_challenge(st, date_str, words, word_data, story, feedback, story_image_url) ==
    LET challenge_data == [date |-> date_str, words |-> words, word_data |-> word_data,
                           story |-> story, feedback |-> feedback,
                           story_image_url |-> story_image_url]
    IN  [d \in DOMAIN st \cup {date_str} |->
            IF d = date_str THEN challenge_data ELSE st[d]]

get_all_used_words(st) == UNION {Range(st[d].words) : d \in DOMAIN st}

(* --------------------------- word selection --------------------------- *)

\* [line.strip() for line in f if line.strip() and line[0].isalpha()]
RECURSIVE ReadWords(_)
ReadWords(lines) ==
    IF lines = <<>> THEN <<>>
    ELSE IF Head(lines).text # "" /\ Head(lines).alpha
         THEN <<Head(lines).text>> \o ReadWords(Tail(lines))
         ELSE ReadWords(Tail(lines))

RECURSIVE Without(_, _)
Without(xs, used) ==
    IF xs = <<>> THEN <<>>
    ELSE IF Head(xs) \in used THEN Without(Tail(xs), used)
         ELSE <<Head(xs)>> \o Without(Tail(xs), used)

\* the selection sampling the whole word list when enough words are unused
SelectWords_from_all(all_words, all_used_words) ==
    LET unused == ListOfSet(Without(all_words, all_used_words))
    IN  IF Len(unused) >= WORDS_PER_DAY
        THEN { [raised |-> FALSE, warned |-> FALSE, words |-> w] :
                   w \in Sample(all_words, WORDS_PER_DAY) }
        ELSE IF 0 < Len(unused)
        THEN { [raised |-> FALSE, warned |-> FALSE, words |-> w] :
                   w \in Sample(unused, Len(unused)) }
        ELSE IF Len(all_words) < WORDS_PER_DAY
        THEN { [raised |-> TRUE, warned |-> TRUE, words |-> <<>>] }
        ELSE { [raised |-> FALSE, warned |-> TRUE, words |-> w] :
                   w \in Sample(all_words, WORDS_PER_DAY) }

\* the selection without its short-batch branch
SelectWords_no_short(all_words, all_used_words) ==
    LET unused == ListOfSet(Without(all_words, all_used_words))
    IN  IF Len(unused) >= WORDS_PER_DAY
        THEN { [raised |-> FALSE, warned |-> FALSE, words |-> w] :
                   w \in Sample(unused, WORDS_PER_DAY) }
        ELSE IF Len(all_words) < WORDS_PER_DAY
        THEN { [raised |-> TRUE, warned |-> TRUE, words |-> <<>>] }
        ELSE { [raised |-> FALSE, warned |-> TRUE, words |-> w] :
                   w \in Sample(all_words, WORDS_PER_DAY) }

\* the selection sampling len(unused) words in its first branch too
SelectWords_whole_unused(all_words, all_used_words) ==
    LET unused == ListOfSet(Without(all_words, all_used_words))
    IN  IF 0 < Len(unused)
        THEN { [raised |-> FALSE, warned |-> FALSE, words |-> w] :
                   w \in Sample(unused, Len(unused)) }
        ELSE IF Len(all_words) < WORDS_PER_DAY
        THEN { [raised |-> TRUE, warned |-> TRUE, words |-> <<>>] }
        ELSE { [raised |-> FALSE, warned |-> TRUE, words |-> w] :
                   w \in Sample(all_words, WORDS_PER_DAY) }

\* lines 141-151 of get_today_challenge: the outcomes of the selection, each
\* with the words chosen, whether the reset warning was printed and whether
\* random.sample raised ValueError
SelectWords(all_words, all_used_words) ==
    LET unused == ListOfSet(Without(all_words, all_used_words))
    IN  IF Len(unused) >= WORDS_PER_DAY
        THEN { [raised |-> FALSE, warned |-> FALSE, words |-> w] :
                   w \in Sample(unused, WORDS_PER_DAY) }
        ELSE IF 0 < Len(unused)
        THEN { [raised |-> FALSE, warned |-> FALSE, words |-> w] :
                   w \in Sample(unused, Len(unused)) }
        ELSE IF Len(all_words) < WORDS_PER_DAY
        THEN { [raised |-> TRUE, warned |-> TRUE, words |-> <<>>] }
        ELSE { [raised |-> FALSE, warned |-> TRUE, words |-> w] :
                   w \in Sample(all_words, WORDS_PER_DAY) }

(* ------------------------------ requests ------------------------------ *)

\* req[p]: the request in flight in slot p: the handler it runs (op), the step
\* it has reached (pc), its local variables and whether it printed the reset
\* warning (warned).
NoRequest ==
    [pc |-> "idle", op |-> "none", today_str |-> 0,
     all_words |-> <<>>, all_used_words |-> {},
     words |-> <<>>, word_data |-> <<>>,
     story |-> "", warned |-> FALSE]

NoDoc ==
    [date |-> 0, words |-> <<>>, word_data |-> <<>>,
     story |-> "", feedback |-> <<>>, story_image_url |-> ""]

\* what the external services answered to a request: the vocabulary reply, the
\* feedback reply, the image reply and the upload outcome ("none": not called)
NoCalls ==
    [vocab |-> [kind |-> "none", word_data |-> <<>>],
     feedback |-> [kind |-> "none", text |-> <<>>],
     image |-> "none", upload |-> "none"]

\* last: the response sent by the latest step (NoResponse when that step sent
\* none): the handler (op), the story submitted with the request (story), the
\* HTTP status, the response body (body: a get-today response carries the six
\* fields, a story response the feedback alone), whether the request found
\* today's record (hit), the arguments of its save_challenge call (wrote,
\* saved), the answers of the external services it called (calls) and whether
\* it printed the reset warning (warned).
NoResponse ==
    [op |-> "none", story |-> "", status |-> 0, today_str |-> 0, body |-> NoDoc,
     hit |-> FALSE, wrote |-> FALSE, saved |-> NoDoc, calls |-> NoCalls,
     warned |-> FALSE]

\* raise HTTPException(status_code=...)
HTTPException(r, status_code) ==
    [NoResponse EXCEPT !.op = r.op, !.story = r.story, !.status = status_code,
        !.today_str = r.today_str, !.warned = r.warned]

get_today_str == now

\* the record a get-today request leaves when the model call fails
PlaceholderRecord(date_str, words) ==
    [date |-> date_str, words |-> words,
     word_data |-> _format_word_data([i \in 1..Len(words) |-> Placeholder(words[i])]),
     story |-> "", feedback |-> <<>>, story_image_url |-> ""]

\* the collection with one such record per day of a list of days
History(days, words) ==
    [d \in Range(days) |->
        PlaceholderRecord(d, words[CHOOSE i \in 1..Len(days) : days[i] = d])]

\* What the server starts with: the deployed word file, the documents already
\* in the collection (left by the requests of earlier days) and the day.
Deployments ==
    { [file |-> NoFile, history |-> <<>>, day |-> MaxDate],
      [file |-> NoWords, history |-> <<>>, day |-> MaxDate],
      [file |-> ThreeWords, history |-> <<>>, day |-> 1],
      [file |-> SixWords, history |-> <<>>, day |-> MaxDate],
      [file |-> RepeatedWord, history |-> History(<<0>>, <<<<"a">>>>), day |-> MaxDate],
      [file |-> RepeatedWord,
       history |-> History(<<-1, 0>>, <<<<"a", "b", "c", "d", "e">>, <<"f">>>>),
       day |-> MaxDate] }

InitWith(deployments) ==
    \E dep \in deployments :
        /\ wordfile = dep.file
        /\ store = dep.history
        /\ now = dep.day
        /\ req = [p \in Procs |-> NoRequest]
        /\ last = NoResponse

\* formatted_data: the results of the calls of _format_word_data made on
\* raw_word_data so far: by main.py (main), by main.py on that result
\* (again) and by migrate.py (migrate)
NotCalled == [called |-> FALSE, value |-> <<>>]
NoFormatting == [main |-> NotCalled, again |-> NotCalled, migrate |-> NotCalled]

NormalizerIdle ==
    /\ raw_word_data = <<>>
    /\ formatted_data = NoFormatting

\* ireq[p]: the call of get_or_create_daily_idioms in flight in slot p: the
\* step it has reached (pc), its argument and the avoid list it has computed
NoIdiomRequest == [pc |-> "idle", date_str |-> 0, avoid_list |-> {}]

\* ilast: what the latest step of a get_or_create_daily_idioms call returned
\* (returned is TRUE when that step returned to the caller): the call's
\* argument, the list returned, whether the call found the document (hit),
\* the generator's reply ("none": not called) and whether the call wrote the
\* document (wrote)
NoIdiomReturn ==
    [returned |-> FALSE, date_str |-> 0, idioms |-> <<>>, hit |-> FALSE,
     reply |-> "none", wrote |-> FALSE]

IdiomsIdle ==
    /\ daily_idioms = <<>>
    /\ ireq = [p \in Procs |-> NoIdiomRequest]
    /\ ilast = NoIdiomReturn

ChallengeIdle == InitWith({[file |-> NoFile, history |-> <<>>, day |-> MaxDate]})

Init ==
    /\ InitWith(Deployments)
    /\ NormalizerIdle
    /\ IdiomsIdle

\* get_today_challenge, lines 124-131: read today's record; return it if it
\* exists
GetTodayRead(p) ==
    /\ req[p].pc = "idle"
    /\ LET today_str == get_today_str
           today_record == get_challenge_for_date(store, today_str)
       IN  IF today_record.exists
           THEN /\ last' = [NoResponse EXCEPT !.op = "today", !.status = 200,
                               !.today_str = today_str, !.hit = TRUE,
                               !.body = [today_record.doc EXCEPT !.word_data =
                                            _format_word_data(today_record.doc.word_data)]]
                /\ req' = req
           ELSE /\ req' = [req EXCEPT ![p] =
                              [NoRequest EXCEPT !.pc = "gt_select", !.op = "today",
                                  !.today_str = today_str]]
                /\ last' = NoResponse
    /\ UNCHANGED <<wordfile, store, now>>
    /\ UNCHANGED outside_challenge

\* get_today_challenge, lines 133-151: read the word file and the used words
\* and choose today's words
GetTodaySelect(p) ==
    /\ req[p].pc = "gt_select"
    /\ IF ~wordfile.exists
       THEN /\ last' = HTTPException(req[p], 500)
            /\ req' = [req EXCEPT ![p] = NoRequest]
       ELSE LET all_words == ReadWords(wordfile.lines)
                all_used_words == get_all_used_words(store)
            IN  \E sel \in SelectWords(all_words, all_used_words) :
                  LET chosen == [req[p] EXCEPT !.all_words = all_words,
                                    !.all_used_words = all_used_words,
                                    !.warned = sel.warned]
                  IN  IF sel.raised
                      THEN /\ last' = HTTPException(chosen, 500)
                           /\ req' = [req EXCEPT ![p] = NoRequest]
                      ELSE /\ req' = [req EXCEPT ![p] =
                                  [chosen EXCEPT !.pc = "gt_save", !.words = sel.words]]
                           /\ last' = NoResponse
    /\ UNCHANGED <<wordfile, store, now>>
    /\ UNCHANGED outside_challenge

\* get_today_challenge, lines 153-176: ask the model for the words' data, save
\* the new challenge and return it
GetTodaySave(p) ==
    /\ req[p].pc = "gt_save"
    /\ LET todays_words == req[p].words
       IN  IF todays_words # <<>>
           THEN \E reply \in VocabReplies(todays_words) :
                  LET todays_word_data_tuples == get_llm_vocab_batch(todays_words, reply)
                      formatted_word_data == _format_word_data(todays_word_data_tuples)
                      returned == [date |-> req[p].today_str, words |-> todays_words,
                                   word_data |-> formatted_word_data,
                                   story |-> "", feedback |-> <<>>, story_image_url |-> ""]
                  IN  /\ store' = save_challenge(store, req[p].today_str, todays_words,
                                                 formatted_word_data, "", <<>>, "")
                      /\ last' = [NoResponse EXCEPT !.op = "today", !.status = 200,
                                     !.today_str = req[p].today_str, !.body = returned,
                                     !.wrote = TRUE,
                                     !.saved = [NoDoc EXCEPT !.date = req[p].today_str,
                                                   !.words = todays_words,
                                                   !.word_data = formatted_word_data],
                                     !.calls = [NoCalls EXCEPT !.vocab = reply],
                                     !.warned = req[p].warned]
           ELSE /\ last' = HTTPException(req[p], 500)
                /\ store' = store
    /\ req' = [req EXCEPT ![p] = NoRequest]
    /\ UNCHANGED <<wordfile, now>>
    /\ UNCHANGED outside_challenge

\* the validation without the check for an empty story
Rejection_no_empty_check(story, today_record) ==
    IF ~today_record.exists THEN 404 ELSE 0

\* save_story, lines 184-191: the status the request is rejected with, 0 when
\* it is accepted
Rejection(story, today_record) ==
    IF story = "" THEN 400
    ELSE IF ~today_record.exists THEN 404
    ELSE 0

\* save_story, lines 183-191: validate the story and read today's record
SaveStoryRead(p) ==
    /\ req[p].pc = "idle"
    /\ \E story \in Stories :
         LET started == [NoRequest EXCEPT !.op = "story", !.story = story]
             today_str == get_today_str
             today_record == get_challenge_for_date(store, today_str)
             status_code == Rejection(story, today_record)
         IN  IF status_code = 400
             THEN /\ last' = HTTPException(started, 400)
                  /\ req' = req
             ELSE IF status_code = 404
             THEN /\ last' = HTTPException([started EXCEPT !.today_str = today_str], 404)
                  /\ req' = req
             ELSE /\ req' = [req EXCEPT ![p] =
                             [started EXCEPT !.pc = "st_save", !.today_str = today_str,
                                 !.words = today_record.doc.words,
                                 !.word_data = today_record.doc.word_data]]
                  /\ last' = NoResponse
    /\ UNCHANGED <<wordfile, store, now>>
    /\ UNCHANGED outside_challenge

\* save_story, lines 193-232: get the feedback, generate the image and upload
\* it, save the record with the story and return the feedback
SaveStorySave(p) ==
    /\ req[p].pc = "st_save"
    /\ \E fb \in FeedbackReplies, img \in ImageReplies, up \in UploadOutcomes :
         LET story == req[p].story
             feedback == get_story_feedback(story, fb)
             image_bytes == generate_image_with_gemini(img)
             story_image_url ==
                 IF image_bytes # "" THEN upload_image_to_storage(up) ELSE ""
             word_data == _format_word_data(req[p].word_data)
         IN  /\ store' = save_challenge(store, req[p].today_str, req[p].words, word_data,
                                        story, feedback, story_image_url)
             /\ last' = [NoResponse EXCEPT !.op = "story", !.story = story,
                            !.status = 200, !.today_str = req[p].today_str,
                            !.body = [NoDoc EXCEPT !.feedback = feedback],
                            !.hit = TRUE, !.wrote = TRUE,
                            !.saved = [date |-> req[p].today_str, words |-> req[p].words,
                                       word_data |-> word_data, story |-> story,
                                       feedback |-> feedback,
                                       story_image_url |-> story_image_url],
                            !.calls = [NoCalls EXCEPT !.feedback = fb, !.image = img,
                                          !.upload = IF image_bytes # "" THEN up
                                                     ELSE "none"]]
    /\ req' = [req EXCEPT ![p] = NoRequest]
    /\ UNCHANGED <<wordfile, now>>
    /\ UNCHANGED outside_challenge

\* midnight UTC: get_today_str returns the next date
Tick ==
    /\ now < MaxDate
    /\ now' = now + 1
    /\ last' = NoResponse
    /\ UNCHANGED <<wordfile, store, req>>
    /\ UNCHANGED outside_challenge

Next ==
    \/ \E p \in Procs : GetTodayRead(p)
    \/ \E p \in Procs : GetTodaySelect(p)
    \/ \E p \in Procs : GetTodaySave(p)
    \/ \E p \in Procs : SaveStoryRead(p)
    \/ \E p \in Procs : SaveStorySave(p)
    \/ Tick

Spec == Init /\ [][Next]_vars

(* --------------------- the normalizer on its own ---------------------- *)

\* the elements of a raw word_data list: tuples of 0, 5, 6 and 7 positions,
\* a complete keyed mapping, a keyed mapping with one key and a plain string
Positions == <<"w", "i", "m", "s", "a", "e", "x">>
RawItems ==
    {Tuple(SubSeq(Positions, 1, n)) : n \in {0, 5, 6, 7}}
        \cup {FullItem("a"), PartialItem("b"), Scalar}
RawLists == UNION {[1..n -> RawItems] : n \in 0..MaxLen}

NormalizerInit ==
    /\ ChallengeIdle
    /\ IdiomsIdle
    /\ raw_word_data \in RawLists
    /\ formatted_data = NoFormatting

\* main.py calls _format_word_data on the raw list
FormatMain ==
    /\ ~formatted_data.main.called
    /\ formatted_data' = [formatted_data EXCEPT !.main =
                             [called |-> TRUE, value |-> _format_word_data(raw_word_data)]]
    /\ UNCHANGED <<raw_word_data, challenge_vars, idiom_vars>>

\* main.py calls _format_word_data on a list it has formatted before (a stored
\* record's word_data, main.py lines 130 and 226)
FormatAgain ==
    /\ formatted_data.main.called
    /\ ~formatted_data.again.called
    /\ formatted_data' = [formatted_data EXCEPT !.again =
                             [called |-> TRUE,
                              value |-> _format_word_data(formatted_data.main.value)]]
    /\ UNCHANGED <<raw_word_data, challenge_vars, idiom_vars>>

\* migrate.py calls its _format_word_data on the raw list (line 166)
FormatMigrate ==
    /\ ~formatted_data.migrate.called
    /\ formatted_data' = [formatted_data EXCEPT !.migrate =
                             [called |-> TRUE,
                              value |-> migrate_format_word_data(raw_word_data)]]
    /\ UNCHANGED <<raw_word_data, challenge_vars, idiom_vars>>

NormalizerNext == FormatMain \/ FormatAgain \/ FormatMigrate

NormalizerSpec == NormalizerInit /\ [][NormalizerNext]_vars

(* ------------------- get-today requests over two days ----------------- *)

\* A server deployed with six words and an empty collection on the first
\* day, receiving get-today requests only.
TwoDayInit ==
    /\ InitWith({[file |-> SixWords, history |-> <<>>, day |-> 1]})
    /\ NormalizerIdle
    /\ IdiomsIdle

TwoDayNext ==
    \/ \E p \in Procs : GetTodayRead(p)
    \/ \E p \in Procs : GetTodaySelect(p)
    \/ \E p \in Procs : GetTodaySave(p)
    \/ Tick

TwoDaySpec == TwoDayInit /\ [][TwoDayNext]_vars

(* ---------------------------- daily idioms ---------------------------- *)

\* An idiom entry is a keyed mapping like a word entry; the list under its
\* "sentences" key is modelled as the text of the list.
IdiomKeys ==
    <<"word", "ipa", "meaning", "synonyms", "antonyms", "collocations", "sentences",
      "forms">>
IdiomDefaults == <<"Error", "N/A", "Error loading", "N/A", "N/A", "N/A", "[]", "N/A">>

\* _clean_idiom_list: idiom.get raises on an item that is not a dict
CleanRaises(raw_idioms) == \E i \in 1..Len(raw_idioms) : raw_idioms[i].tag # "map"

_clean_idiom_list(raw_idioms) ==
    [i \in 1..Len(raw_idioms) |->
        Dict(IdiomKeys, [k \in 1..Len(IdiomKeys) |->
                            DictGet(raw_idioms[i], IdiomKeys[k], IdiomDefaults[k])])]

\* the idioms the generator knows
IdiomNames == {"i1", "i2"}
FullIdiom(w) ==
    Dict(IdiomKeys, <<w, "ipa", "meaning", "syn", "ant", "colloc", "[s]", "forms">>)
PartialIdiom(w) == Dict(<<"word">>, <<w>>)

\* llm_utils.get_daily_idioms(avoid_list): the call fails, or returns an
\* object without the "idioms" key, or an object whose "idioms" list holds one
\* complete entry, one entry with the word alone, or a plain string; the
\* idiom is one outside the avoid list
IdiomReplies(avoid_list) ==
    {[kind |-> "throw", idioms |-> <<>>], [kind |-> "nokey", idioms |-> <<>>],
     [kind |-> "notdict", idioms |-> <<Scalar>>]}
        \cup {[kind |-> "list", idioms |-> <<FullIdiom(w)>>] : w \in IdiomNames \ avoid_list}
        \cup {[kind |-> "list", idioms |-> <<PartialIdiom(w)>>] :
                  w \in IdiomNames \ avoid_list}

get_all_used_idioms(docs) ==
    UNION {{DictGet(docs[d].idioms[i], "word", "") : i \in
               {j \in 1..Len(docs[d].idioms) :
                   \E k \in 1..Len(docs[d].idioms[j].keys) :
                       docs[d].idioms[j].keys[k] = "word"}} : d \in DOMAIN docs}

\* the daily_idioms collection at start: empty, or holding the document of an
\* earlier day
IdiomsInit ==
    /\ ChallengeIdle
    /\ NormalizerIdle
    /\ daily_idioms \in {<<>>, [d \in {0} |-> [idioms |-> _clean_idiom_list(<<FullIdiom("i1")>>)]]}
    /\ ireq = [p \in Procs |-> NoIdiomRequest]
    /\ ilast = NoIdiomReturn

\* doc.exists that also takes a document with an empty list for missing
doc_exists_nonempty(docs, date_str) ==
    date_str \in DOMAIN docs /\ docs[date_str].idioms # <<>>

\* doc = doc_ref.get(); doc.exists
doc_exists(docs, date_str) == date_str \in DOMAIN docs

\* get_or_create_daily_idioms, lines 173-198: read the date's document and
\* return its idioms, cleaned, if it exists
IdiomsRead(p) ==
    /\ ireq[p].pc = "idle"
    /\ \E date_str \in Dates :
         IF doc_exists(daily_idioms, date_str)
         THEN LET raw_idioms_from_db == daily_idioms[date_str].idioms
              IN  /\ ~CleanRaises(raw_idioms_from_db)
                  /\ ilast' = [NoIdiomReturn EXCEPT !.returned = TRUE,
                                  !.date_str = date_str, !.hit = TRUE,
                                  !.idioms = _clean_idiom_list(raw_idioms_from_db)]
                  /\ ireq' = ireq
         ELSE /\ ireq' = [ireq EXCEPT ![p] =
                            [NoIdiomRequest EXCEPT !.pc = "scan", !.date_str = date_str]]
              /\ ilast' = NoIdiomReturn
    /\ UNCHANGED <<daily_idioms, challenge_vars, normalizer_vars>>

\* line 203, get_all_used_idioms(): scan the collection for the avoid list
IdiomsScan(p) ==
    /\ ireq[p].pc = "scan"
    /\ ireq' = [ireq EXCEPT ![p].pc = "generate",
                            ![p].avoid_list = get_all_used_idioms(daily_idioms)]
    /\ ilast' = NoIdiomReturn
    /\ UNCHANGED <<daily_idioms, challenge_vars, normalizer_vars>>

\* lines 201-220: ask the generator for idioms, clean them, save the document
\* and return the list; return [] on any exception
IdiomsGenerate(p) ==
    /\ ireq[p].pc = "generate"
    /\ \E raw_data_obj \in IdiomReplies(ireq[p].avoid_list) :
         LET date_str == ireq[p].date_str
             raw_idiom_list == raw_data_obj.idioms
             clean_idiom_list == _clean_idiom_list(raw_idiom_list)
             answered == [NoIdiomReturn EXCEPT !.returned = TRUE, !.date_str = date_str,
                             !.reply = raw_data_obj.kind]
         IN  IF raw_data_obj.kind = "throw" \/ CleanRaises(raw_idiom_list)
             THEN /\ ilast' = answered
                  /\ daily_idioms' = daily_idioms
             ELSE /\ daily_idioms' =
                       [d \in DOMAIN daily_idioms \cup {date_str} |->
                           IF d = date_str THEN [idioms |-> clean_idiom_list]
                           ELSE daily_idioms[d]]
                  /\ ilast' = [answered EXCEPT !.idioms = clean_idiom_list,
                                  !.wrote = TRUE]
    /\ ireq' = [ireq EXCEPT ![p] = NoIdiomRequest]
    /\ UNCHANGED <<challenge_vars, normalizer_vars>>

IdiomsNext ==
    \/ \E p \in Procs : IdiomsRead(p)
    \/ \E p \in Procs : IdiomsScan(p)
    \/ \E p \in Procs : IdiomsGenerate(p)

IdiomsSpec == IdiomsInit /\ [][IdiomsNext]_vars

(* ----------------------------- properties ----------------------------- *)

\* used(H): the union of the words field over all stored challenge records
UsedIn(H) == {w \in UNION {Range(H[d].words) : d \in DOMAIN H} : TRUE}

NoRepeat(ws) == \A i, j \in 1..Len(ws) : i # j => ws[i] # ws[j]

\* the step in which request p chooses today's words
Selects(p) == req[p].pc = "gt_select" /\ req'[p].pc # "gt_select" /\ wordfile.exists

Chosen(p) == req'[p].pc = "gt_save"

\* S - used(H) at the moment request p chooses
UnusedAt(p) == Range(ReadWords(wordfile.lines)) \ UsedIn(store)

\* the phase of the record of date d in collection st
Phase(st, d) ==
    IF d \notin DOMAIN st THEN "ABSENT"
    ELSE IF /\ st[d].words # <<>> /\ st[d].word_data # <<>>
            /\ st[d].story = "" /\ st[d].feedback = <<>> /\ st[d].story_image_url = ""
         THEN "WORDS_ONLY"
    ELSE IF st[d].story # "" /\ st[d].feedback # <<>> THEN "COMPLETE"
    ELSE "OTHER"

AllDates == DOMAIN store \cup DOMAIN store' \cup Dates

\* C1: a get-today request returns the words and word_data that are stored for
\* its date; one that finds the record present returns the stored record's
\* words and word_data, calls no generator and leaves the store unchanged.
C1_GetTodayIdempotent ==
    [][ (last'.op = "today" /\ last'.status = 200) =>
          /\ last'.today_str \in DOMAIN store'
          /\ last'.body.words = store'[last'.today_str].words
          /\ last'.body.word_data = store'[last'.today_str].word_data
          /\ (now \in DOMAIN store /\ req' = req) =>
                /\ last'.hit
                /\ store' = store
                /\ last'.body.words = store[now].words
                /\ last'.body.word_data = store[now].word_data
                /\ last'.calls = NoCalls
                /\ ~last'.wrote ]_vars

C1_Witness ==
    /\ last.op = "today" /\ last.hit /\ last.status = 200
    /\ Len(last.body.word_data) = WORDS_PER_DAY
    /\ last.body.story = ""

\* C2: when at least WORDS_PER_DAY source words are not in used(H), the words
\* chosen are exactly WORDS_PER_DAY pairwise distinct words of S, none of them
\* in used(H).
C2_FreshSelection ==
    [][ \A p \in Procs :
          (Selects(p) /\ Cardinality(UnusedAt(p)) >= WORDS_PER_DAY) =>
             /\ Chosen(p)
             /\ Len(req'[p].words) = WORDS_PER_DAY
             /\ NoRepeat(req'[p].words)
             /\ Range(req'[p].words) \subseteq Range(ReadWords(wordfile.lines))
             /\ Range(req'[p].words) \cap UsedIn(store) = {} ]_vars

C2_Witness ==
    \E p \in Procs :
        /\ req[p].pc = "gt_save"
        /\ Len(req[p].words) = WORDS_PER_DAY
        /\ Range(req[p].all_words) \cap req[p].all_used_words # {}
        /\ Cardinality(Range(req[p].all_words) \ req[p].all_used_words) >= WORDS_PER_DAY

C4_ResetPolicy ==
    [][ \A p \in Procs :
          (Selects(p) /\ UnusedAt(p) = {}) =>
             /\ Chosen(p)
             /\ Len(req'[p].words) = WORDS_PER_DAY
             /\ Range(req'[p].words) \subseteq Range(ReadWords(wordfile.lines))
             /\ NoRepeat(req'[p].words)
             /\ req'[p].warned ]_vars

\* C5 as stated: in every step the record of every date stays in its phase or
\* moves ABSENT -> WORDS_ONLY, WORDS_ONLY -> COMPLETE or COMPLETE -> COMPLETE.
Lifecycle(from, to) ==
    \/ from = to /\ from # "OTHER"
    \/ from = "ABSENT" /\ to = "WORDS_ONLY"
    \/ from = "WORDS_ONLY" /\ to = "COMPLETE"

C5_LifecycleAlways ==
    [][ \A d \in AllDates : Lifecycle(Phase(store, d), Phase(store', d)) ]_vars

\* C5 amended: the record of a date moves only ABSENT -> WORDS_ONLY ->
\* COMPLETE (COMPLETE -> COMPLETE allowed) and is never deleted, except that
\* the save of a get-today request that had read the date as absent replaces a
\* record that has become COMPLETE in the meantime by a WORDS_ONLY one.
C5_Lifecycle ==
    [][ \A d \in AllDates :
          \/ Lifecycle(Phase(store, d), Phase(store', d))
          \/ /\ Phase(store, d) = "COMPLETE"
             /\ Phase(store', d) = "WORDS_ONLY"
             /\ \E p \in Procs : /\ req[p].pc = "gt_save"
                                 /\ req[p].today_str = d
                                 /\ req'[p].pc = "idle" ]_vars

C5_Witness ==
    /\ last.op = "story" /\ last.wrote
    /\ Phase(store, last.today_str) = "COMPLETE"
    /\ \E p \in Procs : req[p].pc = "gt_save" /\ req[p].today_str = last.today_str

\* C6: in every stored challenge record the length of word_data equals the
\* length of words.
C6_WordDataParallel ==
    \A d \in DOMAIN store : Len(store[d].word_data) = Len(store[d].words)

\* C7: a story submission with an empty story is answered 400, one with a
\* non-empty story and no record for today 404; either makes no generator call,
\* uploads nothing and leaves the store unchanged.
C7_StoryErrors ==
    [][ /\ \A p \in Procs :
             (req[p].pc = "idle" /\ req'[p].pc = "st_save") =>
                 (now \in DOMAIN store /\ req'[p].story # "")
        /\ (last'.op = "story") =>
             /\ (last'.story = "") => (last'.status = 400)
             /\ (last'.story # "" /\ req' = req) =>
                   (now \notin DOMAIN store /\ last'.status = 404)
             /\ (last'.status \in {400, 404}) =>
                   /\ store' = store
                   /\ last'.calls = NoCalls
                   /\ ~last'.wrote
                   /\ last'.saved = NoDoc ]_vars

C7_Witness ==
    /\ last.op = "story" /\ last.status = 404 /\ last.story # ""
    /\ last.today_str \notin DOMAIN store

\* C8: when the vocabulary generator call throws, returns malformed output or
\* returns an empty list, get-today answers 200 and stores and returns one
\* placeholder entry per requested word, in the order of the words.
VocabFailed(reply) ==
    \/ reply.kind \in {"throw", "notjson", "nokey"}
    \/ reply.kind = "list" /\ reply.word_data = <<>>
    \/ reply.kind = "list" /\ \E i \in 1..Len(reply.word_data) :
                                  reply.word_data[i].tag # "map"

PlaceholderEntry(w) ==
    [tag |-> "map", keys |-> <<"word", "ipa", "meaning", "synonyms", "antonyms", "sentence">>,
     vals |-> <<w, "N/A", "Error loading data from AI.", "N/A", "N/A", "N/A">>]

C8_VocabFallback ==
    (last.op = "today" /\ last.calls.vocab.kind # "none" /\ VocabFailed(last.calls.vocab)) =>
        /\ last.status = 200
        /\ last.today_str \in DOMAIN store
        /\ last.body.word_data = [i \in 1..Len(last.body.words) |->
                                     PlaceholderEntry(last.body.words[i])]
        /\ store[last.today_str].words = last.body.words
        /\ store[last.today_str].word_data = last.body.word_data

C8_Witness ==
    /\ last.op = "today" /\ last.calls.vocab.kind = "throw"
    /\ Len(last.body.word_data) = WORDS_PER_DAY

\* C9: a story submission that reaches the generators answers 200 whatever
\* fails, and saves the submitted story, a non-empty feedback (the template
\* holding the story when the feedback generation failed) and an image URL
\* that is empty exactly when no image was generated or the upload failed.
FeedbackFailed(reply) ==
    reply.kind = "throw" \/ "### Corrections:" \notin Range(reply.text)

C9_StoryNeverFails ==
    (last.op = "story" /\ last.calls.feedback.kind # "none") =>
        /\ last.status = 200
        /\ last.today_str \in DOMAIN store
        /\ store[last.today_str].story = last.story
        /\ store[last.today_str].feedback # <<>>
        /\ store[last.today_str].feedback = last.body.feedback
        /\ FeedbackFailed(last.calls.feedback) =>
              /\ Len(last.body.feedback) > 1
              /\ last.body.feedback[Len(last.body.feedback)] = last.story
        /\ store[last.today_str].story_image_url = ""
              <=> (last.calls.image # "image" \/ last.calls.upload # "ok")

C9_Witness ==
    /\ last.op = "story" /\ last.status = 200
    /\ last.calls.feedback.kind = "throw"
    /\ last.calls.image = "image" /\ last.calls.upload = "error"
    /\ store[last.today_str].story_image_url = ""

\* C10: after a save_challenge call the record of its date is exactly the six
\* fields of the call, whatever was stored before, and no other record
\* changes; a step that makes no save_challenge call changes no record.
C10_UpsertReplaces ==
    [][ /\ last'.wrote =>
             /\ get_challenge_for_date(store', last'.today_str).exists
             /\ get_challenge_for_date(store', last'.today_str).doc = last'.saved
             /\ DOMAIN store'[last'.today_str] =
                   {"date", "words", "word_data", "story", "feedback", "story_image_url"}
             /\ DOMAIN store' = DOMAIN store \cup {last'.today_str}
             /\ \A d \in DOMAIN store : d # last'.today_str => store'[d] = store[d]
        /\ ~last'.wrote => store' = store ]_vars

C10_Witness ==
    /\ last.wrote /\ last.op = "story"
    /\ last.saved.story # "" /\ last.saved.story_image_url = ""
    /\ store[last.today_str] = last.saved

\* C11: the result of _format_word_data holds, in input order, one entry per
\* input element that is a tuple of at least six positions (the six keys set
\* from positions 0..5) or a keyed mapping (unchanged) and nothing else; it is
\* never longer than the input, and formatting the result again returns it
\* unchanged.  The same holds of the copy in migrate.py.
KeptPositions(raw) ==
    Ascending({i \in 1..Len(raw) :
                 \/ raw[i].tag = "seq" /\ Len(raw[i].vals) >= 6
                 \/ raw[i].tag = "map"})

Normalized(raw, out) ==
    LET kept == KeptPositions(raw)
    IN  /\ Len(out) = Len(kept)
        /\ Len(out) <= Len(raw)
        /\ \A j \in 1..Len(kept) :
              LET item == raw[kept[j]]
              IN  IF item.tag = "map" THEN out[j] = item
                  ELSE /\ out[j].tag = "map"
                       /\ out[j].keys = Keys
                       /\ Len(out[j].vals) = 6
                       /\ \A k \in 1..6 : out[j].vals[k] = item.vals[k]

C11_Normalizer ==
    /\ formatted_data.main.called =>
          Normalized(raw_word_data, formatted_data.main.value)
    /\ formatted_data.migrate.called =>
          Normalized(raw_word_data, formatted_data.migrate.value)
    /\ formatted_data.again.called =>
          formatted_data.again.value = formatted_data.main.value

\* a list with a short tuple, a long tuple, a plain string and a keyed mapping
\* has been formatted by both copies, and its result formatted again
C11_Witness ==
    /\ formatted_data.main.called
    /\ formatted_data.again.called
    /\ formatted_data.migrate.called
    /\ Len(formatted_data.main.value) < Len(raw_word_data)
    /\ \E i \in 1..Len(raw_word_data) :
          raw_word_data[i].tag = "seq" /\ Len(raw_word_data[i].vals) = 7
    /\ \E i \in 1..Len(raw_word_data) :
          raw_word_data[i].tag = "seq" /\ Len(raw_word_data[i].vals) = 5
    /\ \E i \in 1..Len(raw_word_data) : raw_word_data[i] = PartialItem("b")

\* C12: a get-today request that read its date as absent makes its own
\* selection and its own generator call and writes, also when another request
\* has created the date's record since; after its write the date has one
\* record, equal to the payload of this write, and no other date's record has
\* changed.
C12_SameDateRace ==
    [][ \A p \in Procs :
          (req[p].pc = "gt_save" /\ req'[p].pc = "idle") =>
             LET d == req[p].today_str
             IN  /\ last'.wrote
                 /\ last'.calls.vocab.kind # "none"
                 /\ last'.saved.words = req[p].words
                 /\ last'.body = last'.saved
                 /\ DOMAIN store' = DOMAIN store \cup {d}
                 /\ store'[d] = last'.saved
                 /\ \A e \in DOMAIN store \ {d} : store'[e] = store[e] ]_vars

\* two requests read the date as absent and chose different words; the first
\* has written and been answered with the record now stored, the second is
\* about to write its own
C12_Witness ==
    /\ last.op = "today" /\ last.wrote
    /\ last.today_str \in DOMAIN store
    /\ last.body = store[last.today_str]
    /\ \E q \in Procs :
          /\ req[q].pc = "gt_save"
          /\ req[q].today_str = last.today_str
          /\ Range(req[q].words) # Range(last.body.words)

\* C13: a request handling date d leaves the record of every other date as it
\* is, and the words a get-today request stores for d are a selection it could
\* have made had the requests for d run alone after the requests of the other
\* dates: a selection by the same branch from the words used by the other
\* dates' records as they are when it writes, together with words it saw in
\* use (those of a record another request had written for d).
OtherDates(st, d) == [e \in DOMAIN st \ {d} |-> st[e]]

C13_DifferentDates ==
    [][ \A p \in Procs :
          (req[p].pc \in {"gt_save", "st_save"} /\ req'[p].pc = "idle") =>
             LET d == req[p].today_str
                 used_elsewhere == get_all_used_words(OtherDates(store, d))
             IN  /\ DOMAIN store' = DOMAIN store \cup {d}
                 /\ \A e \in DOMAIN store \ {d} : store'[e] = store[e]
                 /\ req[p].pc = "gt_save" =>
                       \E seen \in SUBSET req[p].all_used_words :
                          \E sel \in SelectWords(req[p].all_words,
                                                 used_elsewhere \cup seen) :
                             /\ ~sel.raised
                             /\ sel.warned = req[p].warned
                             /\ sel.words = req[p].words ]_vars

\* C14: the document of a date, once it exists, is never written again nor
\* removed; a call that finds it returns its idioms without calling the
\* generator or writing; a call whose generation fails returns the empty
\* list and writes nothing.
IdiomsFailed(reply) == reply \in {"throw", "notdict"}

C14_IdiomsWriteOnce ==
    [][ /\ \A d \in DOMAIN daily_idioms :
              /\ d \in DOMAIN daily_idioms'
              /\ ~(ilast'.wrote /\ ilast'.date_str = d)
              /\ daily_idioms'[d] = daily_idioms[d]
        /\ (ilast'.returned /\ ilast'.hit) =>
              /\ ilast'.idioms = daily_idioms[ilast'.date_str].idioms
              /\ ilast'.reply = "none"
              /\ ~ilast'.wrote
              /\ daily_idioms' = daily_idioms
        /\ (ilast'.returned /\ IdiomsFailed(ilast'.reply)) =>
              /\ ilast'.idioms = <<>>
              /\ ~ilast'.wrote
              /\ daily_idioms' = daily_idioms ]_vars

\* C14 amended: a call that finds the date's document returns its idioms
\* without calling the generator or writing, so the document is written once
\* unless calls for the date overlap: an existing document is written again
\* only by a call that had read the date as absent (the last write wins); it
\* is never removed; a call whose generation fails returns the empty list and
\* writes nothing.
C14_IdiomsWriteOnceUnlessOverlap ==
    [][ /\ \A d \in DOMAIN daily_idioms :
              /\ d \in DOMAIN daily_idioms'
              /\ \A p \in Procs :
                    ~(ireq[p].pc = "idle" /\ ireq'[p].pc # "idle" /\ ireq'[p].date_str = d)
              /\ (daily_idioms'[d] # daily_idioms[d] \/ (ilast'.wrote /\ ilast'.date_str = d)) =>
                    \E p \in Procs : /\ ireq[p].pc = "generate"
                                      /\ ireq[p].date_str = d
                                      /\ ireq'[p].pc = "idle"
        /\ (ilast'.returned /\ ilast'.hit) =>
              /\ ilast'.idioms = daily_idioms[ilast'.date_str].idioms
              /\ ilast'.reply = "none"
              /\ ~ilast'.wrote
              /\ daily_idioms' = daily_idioms
        /\ (ilast'.returned /\ IdiomsFailed(ilast'.reply)) =>
              /\ ilast'.idioms = <<>>
              /\ ~ilast'.wrote
              /\ daily_idioms' = daily_idioms ]_vars

\* a call has found the date's document and returned its idioms while a call
\* that had read the date as absent is about to generate and write
C14_Witness ==
    /\ ilast.returned /\ ilast.hit
    /\ ilast.idioms # <<>>
    /\ \E p \in Procs : ireq[p].pc = "generate" /\ ireq[p].date_str = ilast.date_str

C16_LastStoryWins ==
    [][ \A p \in Procs :
          (req[p].pc = "st_save" /\ req'[p].pc = "idle") =>
             LET d == req[p].today_str
                 uploaded == last'.calls.image = "image" /\ last'.calls.upload = "ok"
             IN  /\ store'[d].story = req[p].story
                 /\ store'[d].story # ""
                 /\ store'[d].feedback = last'.body.feedback
                 /\ store'[d].feedback =
                       get_story_feedback(req[p].story, last'.calls.feedback)
                 /\ store'[d].story_image_url = IF uploaded THEN "url" ELSE ""
                 /\ store'[d] = last'.saved ]_vars

\* a record holds a story with an image URL and the model's own feedback, and
\* a further submission for the date is about to write
C16_Witness ==
    \E p \in Procs :
        /\ req[p].pc = "st_save"
        /\ req[p].today_str \in DOMAIN store
        /\ store[req[p].today_str].story # ""
        /\ store[req[p].today_str].story_image_url = "url"
        /\ last.op = "story" /\ last.wrote /\ ~FeedbackFailed(last.calls.feedback)

\* C17: a get-today request whose selection took the non-degraded branch (at
\* least WORDS_PER_DAY unused words, no reset warning) stores words that are
\* in the words list of no record of another date.
NonDegraded(r) ==
    /\ ~r.warned
    /\ Cardinality(Range(r.all_words) \ r.all_used_words) >= WORDS_PER_DAY

C17_NoWordTwice ==
    [][ \A p \in Procs :
          (req[p].pc = "gt_save" /\ req'[p].pc = "idle" /\ NonDegraded(req[p])) =>
             \A d \in DOMAIN store' \ {req[p].today_str} :
                Range(store'[d].words) \cap Range(store'[req[p].today_str].words) = {} ]_vars

\* C18: every stored challenge record has between 1 and WORDS_PER_DAY words,
\* an empty story exactly when its feedback is empty, and an image URL only
\* with a story; and a get-today request that fails (status 500: word file
\* missing, or the selection raising) writes nothing.
RecordWellFormed(r) ==
    /\ Len(r.words) >= 1
    /\ Len(r.words) <= WORDS_PER_DAY
    /\ (r.story = "") <=> (r.feedback = <<>>)
    /\ r.story_image_url # "" => r.story # ""

C18_RecordInvariants ==
    /\ [](\A d \in DOMAIN store : RecordWellFormed(store[d]))
    /\ [][ (last'.op = "today" /\ last'.status = 500) =>
              /\ ~last'.wrote
              /\ store' = store ]_vars

\* a get-today request has failed on the selection (the three words of the
\* file are all used) while the collection holds a record with a story and
\* an image URL
C18_Witness ==
    /\ last.op = "today" /\ last.status = 500
    /\ wordfile.exists
    /\ \E d \in DOMAIN store :
          /\ store[d].story # ""
          /\ store[d].story_image_url # ""
          /\ Len(store[d].words) < WORDS_PER_DAY

====
